---- MODULE Spec2Model ----
(***************************************************************************)
(* A model of graphix_stim_compiler: the Stim-backed Clifford-map          *)
(* compilation pass (StimCliffordPass) and pauli_string_to_stim.           *)
(*                                                                         *)
(* Source: src/graphix_stim_compiler/graphix_stim_compiler.py              *)
(*                                                                         *)
(* Qubit indices are 0-based as in stim and graphix; TLA+ sequences are    *)
(* 1-based, so qubit q lives at position q + 1 of a Pauli string.          *)
(***************************************************************************)
EXTENDS Integers, Sequences, FiniteSets, TLC

VARIABLES
    entry,          \* the public operation that was called
    ps,             \* pauli_string_to_stim: the PauliString argument
    outputs,        \* pauli_string_to_stim: the outputs argument
    clifford_map,   \* the CliffordMap argument
    circuitArg,     \* add_to_circuit: the circuit argument ("None" or an object id)
    copy,           \* add_to_circuit: the copy argument
    engineGateSet,  \* opcodes the synthesis engine may emit
    heap,           \* gate list of every circuit object
    live,           \* the circuit objects that exist
    priorGates,     \* gate list of the caller's circuit when the call was made
    circuit,        \* add_to_circuit's local `circuit` (an object id)
    xs,             \* clifford_map_to_stim_tableau's local `xs`
    zs,             \* clifford_map_to_stim_tableau's local `zs`
    tableau,        \* the stim.Tableau built from xs, zs
    stim_circuit,   \* add_to_circuit's local `stim_circuit` (the gate stream)
    i,              \* replay: index of the current instruction
    j,              \* replay: index of the current target group
    pc,             \* position of the call
    err,            \* the exception the call raised ("none" when it did not)
    ret,            \* what the call returned: "none", or where the value is
    encoded,        \* pauli_string_to_stim: the stim.PauliString returned
    engineChoice    \* the gate stream the synthesis engine will answer with

vars == <<entry, ps, outputs, clifford_map, circuitArg, copy, engineGateSet,
          heap, live, priorGates, circuit, xs, zs, tableau, stim_circuit,
          i, j, pc, err, ret, encoded, engineChoice>>

(***************************************************************************)
(* Bounds of the model.                                                    *)
(***************************************************************************)
\* pauli_string_to_stim alone: node ids are 0..MaxNode, outputs has at most
\* MaxOutLen entries.
MaxNode == 2
MaxOutLen == 3
\* A gate stream holds at most MaxGates operand groups in all.
MaxGates == 3
\* The caller's circuit holds at most MaxPrior gates before the call.
MaxPrior == 1
\* Clifford maps act on 1..NumQubits qubits (the round-trip test's nqubits).
NumQubits == 2

(***************************************************************************)
(* Small helpers.                                                          *)
(***************************************************************************)
Range(s) == {s[k] : k \in DOMAIN s}

SeqsUpTo(S, n) == UNION {[1..k -> S] : k \in 0..n}

(***************************************************************************)
(* graphix PauliString: three node sets and a sign.                        *)
(***************************************************************************)
PauliString(x, y, z, neg) ==
    [x_nodes |-> x, y_nodes |-> y, z_nodes |-> z, negative_sign |-> neg]

(***************************************************************************)
(* stim.PauliString(text): the first character is the sign, every other    *)
(* character is the Pauli of one qubit.                                    *)
(***************************************************************************)
StimPauliString(text) ==
    [negative |-> (text[1] = "-"), paulis |-> Tail(text)]

\* str(stim.PauliString): the sign, then one character per qubit.
StimStr(p) == <<IF p.negative THEN "-" ELSE "+">> \o p.paulis

\* The value a raising call leaves behind: there is none.
NoPauli == [negative |-> FALSE, paulis |-> <<>>]

(***************************************************************************)
(* pauli_string_to_stim, lines 117-150.                                    *)
(***************************************************************************)
\* line 136: the guard of the raise.
NodesOutsideOutputsXOnly(p, outs) == ~(p.x_nodes \subseteq Range(outs))

NodesOutsideOutputs(p, outs) ==
    ~((p.x_nodes \cup p.y_nodes \cup p.z_nodes) \subseteq Range(outs))

\* lines 141-148: the if/elif chain of one loop iteration.
NodeSymbolZFirst(p, node) ==
    IF node \in p.z_nodes THEN "Z"
    ELSE IF node \in p.y_nodes THEN "Y"
    ELSE IF node \in p.x_nodes THEN "X"
    ELSE "_"

NodeSymbolSwapped(p, node) ==
    IF node \in p.x_nodes THEN "X"
    ELSE IF node \in p.y_nodes THEN "Z"
    ELSE IF node \in p.z_nodes THEN "Y"
    ELSE "_"

NodeSymbol(p, node) ==
    IF node \in p.x_nodes THEN "X"
    ELSE IF node \in p.y_nodes THEN "Y"
    ELSE IF node \in p.z_nodes THEN "Z"
    ELSE "_"

\* lines 139-148: pauli_str after the first k iterations of the loop.
RECURSIVE PauliStrList(_, _, _)
PauliStrList(p, outs, k) ==
    IF k = 0 THEN <<IF p.negative_sign THEN "-" ELSE "+">>
    ELSE Append(PauliStrList(p, outs, k - 1), NodeSymbol(p, outs[k]))

\* The whole function: the exception raised and the value returned.
pauli_string_to_stim(p, outs) ==
    IF NodesOutsideOutputs(p, outs)
    THEN [err |-> "ValueError", val |-> NoPauli]
    ELSE [err |-> "none",
          val |-> StimPauliString(PauliStrList(p, outs, Len(outs)))]

(***************************************************************************)
(* Pauli algebra: conjugation of a signed Pauli string by H, S, CX and Z.  *)
(* A Pauli is the pair of bits (x, z): _ = (0,0), X = (1,0), Z = (0,1),    *)
(* Y = (1,1).                                                              *)
(***************************************************************************)
XBit(sym) == sym \in {"X", "Y"}
ZBit(sym) == sym \in {"Z", "Y"}
Sym(x, z) == IF x THEN (IF z THEN "Y" ELSE "X") ELSE (IF z THEN "Z" ELSE "_")

\* H: X <-> Z, Y -> -Y.
ConjH(P, q) ==
    LET x == XBit(P.paulis[q + 1])
        z == ZBit(P.paulis[q + 1])
    IN [negative |-> (P.negative # (x /\ z)),
        paulis |-> [P.paulis EXCEPT ![q + 1] = Sym(z, x)]]

\* S: X -> Y, Y -> -X, Z -> Z.
ConjS(P, q) ==
    LET x == XBit(P.paulis[q + 1])
        z == ZBit(P.paulis[q + 1])
    IN [negative |-> (P.negative # (x /\ z)),
        paulis |-> [P.paulis EXCEPT ![q + 1] = Sym(x, z # x)]]

\* Z: X -> -X, Y -> -Y, Z -> Z.
ConjZ(P, q) ==
    [negative |-> (P.negative # XBit(P.paulis[q + 1])), paulis |-> P.paulis]

\* CX control c, target t: X_c -> X_c X_t, Z_t -> Z_c Z_t.
ConjCX(P, c, t) ==
    LET xc == XBit(P.paulis[c + 1])
        zc == ZBit(P.paulis[c + 1])
        xt == XBit(P.paulis[t + 1])
        zt == ZBit(P.paulis[t + 1])
    IN [negative |-> (P.negative # (xc /\ zt /\ (xt = zc))),
        paulis |-> [P.paulis EXCEPT ![c + 1] = Sym(xc, zc # zt),
                                    ![t + 1] = Sym(xt # xc, zt)]]

\* The generators X_k and Z_k on n qubits (k is a 0-based qubit).
XGen(k, n) == [negative |-> FALSE,
               paulis |-> [a \in 1..n |-> IF a = k + 1 THEN "X" ELSE "_"]]
ZGen(k, n) == [negative |-> FALSE,
               paulis |-> [a \in 1..n |-> IF a = k + 1 THEN "Z" ELSE "_"]]

\* Two Pauli strings commute iff they anticommute on an even number of qubits.
Anticommute(P, Q) ==
    LET clash == {a \in DOMAIN P.paulis :
                    (XBit(P.paulis[a]) /\ ZBit(Q.paulis[a]))
                        # (ZBit(P.paulis[a]) /\ XBit(Q.paulis[a]))}
    IN Cardinality(clash) % 2 = 1

(***************************************************************************)
(* The host circuit (graphix Circuit): a list of gates; cnot(control,      *)
(* target), h(qubit), s(qubit) each append one gate.                       *)
(***************************************************************************)
cnot(control, target) == [name |-> "cnot", qubits |-> <<control, target>>]
h(qubit) == [name |-> "h", qubits |-> <<qubit>>]
s(qubit) == [name |-> "s", qubits |-> <<qubit>>]

\* Conjugation of a Pauli string by one gate of the circuit.
ConjGate(g, P) ==
    CASE g.name = "cnot" -> ConjCX(P, g.qubits[1], g.qubits[2])
      [] g.name = "h" -> ConjH(P, g.qubits[1])
      [] g.name = "s" -> ConjS(P, g.qubits[1])

\* Conjugation by the first k gates of a gate list, first gate first.
RECURSIVE ConjCircuit(_, _, _)
ConjCircuit(gates, k, P) ==
    IF k = 0 THEN P ELSE ConjGate(gates[k], ConjCircuit(gates, k - 1, P))

(***************************************************************************)
(* The gate stream (stim.Circuit): a list of instructions, each a name and *)
(* its target groups (pairs for CX, singletons for the others).            *)
(***************************************************************************)
Instruction(name, groups) == [name |-> name, groups |-> groups]

\* The stream seen one operand group at a time.
RECURSIVE FlatStream(_, _)
FlatStream(stream, k) ==
    IF k = 0 THEN <<>>
    ELSE FlatStream(stream, k - 1)
            \o [a \in 1..Len(stream[k].groups) |->
                    [name |-> stream[k].name, group |-> stream[k].groups[a]]]

Flat(stream) == FlatStream(stream, Len(stream))

\* stim's meaning of one operation.
ConjStimOp(op, P) ==
    CASE op.name = "CX" -> ConjCX(P, op.group[1], op.group[2])
      [] op.name = "H" -> ConjH(P, op.group[1])
      [] op.name = "S" -> ConjS(P, op.group[1])
      [] op.name = "Z" -> ConjZ(P, op.group[1])

RECURSIVE ConjOps(_, _, _)
ConjOps(ops, k, P) ==
    IF k = 0 THEN P ELSE ConjStimOp(ops[k], ConjOps(ops, k - 1, P))

\* stim.Circuit.to_tableau: the images of the generators.
TableauOfStream(stream, n) ==
    LET ops == Flat(stream)
    IN [xs |-> [k \in 1..n |-> ConjOps(ops, Len(ops), XGen(k - 1, n))],
        zs |-> [k \in 1..n |-> ConjOps(ops, Len(ops), ZGen(k - 1, n))]]

(***************************************************************************)
(* StimCliffordPass.clifford_map_to_stim_tableau, lines 66-90.             *)
(***************************************************************************)
NoTableau == [xs |-> <<>>, zs |-> <<>>]

\* line 78: the guard of the raise.
IsIsometryLenient(cm) == Len(cm.input_nodes) > Len(cm.output_nodes)

IsIsometry(cm) == Len(cm.input_nodes) # Len(cm.output_nodes)

\* line 86: the node of the k-th iteration.
LoopNodeReversed(cm, k) == cm.input_nodes[Len(cm.input_nodes) + 1 - k]

LoopNode(cm, k) == cm.input_nodes[k]

\* line 87: what is appended to xs.
XImageFromZMap(cm, node) == pauli_string_to_stim(cm.z_map[node], cm.output_nodes)

XImage(cm, node) == pauli_string_to_stim(cm.x_map[node], cm.output_nodes)

\* line 88: what is appended to zs.
ZImage(cm, node) == pauli_string_to_stim(cm.z_map[node], cm.output_nodes)

\* lines 83-88: xs and zs after the first k iterations, or the exception
\* that ended the loop.
RECURSIVE AssembleLoop(_, _)
AssembleLoop(cm, k) ==
    IF k = 0 THEN [err |-> "none", xs |-> <<>>, zs |-> <<>>]
    ELSE LET prev == AssembleLoop(cm, k - 1)
             node == LoopNode(cm, k)
             ex == XImage(cm, node)
             ez == ZImage(cm, node)
         IN IF prev.err # "none" THEN prev
            ELSE IF ex.err # "none" THEN [prev EXCEPT !.err = ex.err]
            ELSE IF ez.err # "none" THEN [prev EXCEPT !.err = ez.err]
            ELSE [err |-> "none",
                  xs |-> Append(prev.xs, ex.val),
                  zs |-> Append(prev.zs, ez.val)]

\* stim.Tableau.from_conjugated_generators: the generators must all act on
\* len(xs) qubits and keep the commutation relations of X_k and Z_k.
ValidGenerators(gx, gz) ==
    LET n == Len(gx)
    IN /\ Len(gz) = n
       /\ \A a \in 1..n : Len(gx[a].paulis) = n /\ Len(gz[a].paulis) = n
       /\ \A a, b \in 1..n :
             /\ Anticommute(gx[a], gz[b]) = (a = b)
             /\ ~Anticommute(gx[a], gx[b])
             /\ ~Anticommute(gz[a], gz[b])

from_conjugated_generators(gx, gz) ==
    IF ValidGenerators(gx, gz)
    THEN [err |-> "none", val |-> [xs |-> gx, zs |-> gz]]
    ELSE [err |-> "ValueError", val |-> NoTableau]

\* The whole method: the exception raised, the tableau returned, and the
\* sequences handed to the tableau constructor (when it was reached).
clifford_map_to_stim_tableau(cm) ==
    IF IsIsometry(cm)
    THEN [err |-> "NotImplementedError", val |-> NoTableau,
          built |-> FALSE, xs |-> <<>>, zs |-> <<>>]
    ELSE LET a == AssembleLoop(cm, Len(cm.input_nodes))
             t == from_conjugated_generators(a.xs, a.zs)
         IN IF a.err # "none"
            THEN [err |-> a.err, val |-> NoTableau,
                  built |-> FALSE, xs |-> <<>>, zs |-> <<>>]
            ELSE [err |-> t.err, val |-> t.val,
                  built |-> TRUE, xs |-> a.xs, zs |-> a.zs]

(***************************************************************************)
(* initialize_circuit (graphix): a fresh circuit when none is given, a     *)
(* deep copy when copy is set, the given circuit otherwise.  The result is *)
(* the object to work on and the heap after the call.                      *)
(***************************************************************************)
initialize_circuit(hp, lv, output_nodes, circ, cp) ==
    IF circ = "None"
    THEN [obj |-> "N", heap |-> [hp EXCEPT !["N"] = <<>>], live |-> lv \cup {"N"}]
    ELSE IF cp
    THEN [obj |-> "N", heap |-> [hp EXCEPT !["N"] = hp[circ]], live |-> lv \cup {"N"}]
    ELSE [obj |-> circ, heap |-> hp, live |-> lv]

(***************************************************************************)
(* StimCliffordPass.add_to_circuit, lines 19-63.                           *)
(***************************************************************************)
\* line 45: the call of the initializer.
InitializedIgnoringCopy ==
    initialize_circuit(heap, live, clifford_map.output_nodes, circuitArg, FALSE)

Initialized ==
    initialize_circuit(heap, live, clifford_map.output_nodes, circuitArg, copy)

\* lines 53-62: the exception the match raises for an instruction name.
\* There is no default case: no name raises.
MatchRaisesOnUnknown(name) ==
    IF name \in {"CX", "H", "S"} THEN "none" ELSE "SynthesisGateSetError"

MatchRaises(name) == "none"

\* lines 54-62: the gates one instruction adds, in the order they are added.
MatchGatesSwappedCX(instr) ==
    CASE instr.name = "CX" ->
            [k \in 1..Len(instr.groups) |->
                cnot(instr.groups[k][2], instr.groups[k][1])]
      [] instr.name = "H" ->
            [k \in 1..Len(instr.groups) |-> h(instr.groups[k][1])]
      [] instr.name = "S" ->
            [k \in 1..Len(instr.groups) |-> s(instr.groups[k][1])]
      [] OTHER -> <<>>

MatchGatesFirstGroupOnly(instr) ==
    CASE instr.name = "CX" ->
            <<cnot(instr.groups[1][1], instr.groups[1][2])>>
      [] instr.name = "H" -> <<h(instr.groups[1][1])>>
      [] instr.name = "S" -> <<s(instr.groups[1][1])>>
      [] OTHER -> <<>>

MatchGatesUnknownAsH(instr) ==
    CASE instr.name = "CX" ->
            [k \in 1..Len(instr.groups) |->
                cnot(instr.groups[k][1], instr.groups[k][2])]
      [] instr.name = "S" ->
            [k \in 1..Len(instr.groups) |-> s(instr.groups[k][1])]
      [] OTHER ->
            [k \in 1..Len(instr.groups) |-> h(instr.groups[k][1])]

MatchGates(instr) ==
    CASE instr.name = "CX" ->
            [k \in 1..Len(instr.groups) |->
                cnot(instr.groups[k][1], instr.groups[k][2])]
      [] instr.name = "H" ->
            [k \in 1..Len(instr.groups) |-> h(instr.groups[k][1])]
      [] instr.name = "S" ->
            [k \in 1..Len(instr.groups) |-> s(instr.groups[k][1])]
      [] OTHER -> <<>>

(***************************************************************************)
(* The inputs of the model.                                                *)
(***************************************************************************)
Nodes == 0..MaxNode

AllPauliStrings ==
    {PauliString(x, y, z, neg) :
        x \in SUBSET Nodes, y \in SUBSET Nodes, z \in SUBSET Nodes,
        neg \in BOOLEAN}

EmptyPauliString == PauliString({}, {}, {}, FALSE)

\* Node labels of an n-qubit Clifford map: inputs 1..n, outputs 11..10+n.
InLabels(n) == 1..n
OutLabels(n) == {10 + q : q \in 1..n}
StrayNode == 99

Perms(S) == {f \in [1..Cardinality(S) -> S] : \A a, b \in DOMAIN f : f[a] = f[b] => a = b}

\* The operations a gate stream over n qubits is made of.
CXOpsSet(n) ==
    {op \in {[name |-> "CX", group |-> <<c, t>>] : c \in 0..(n - 1), t \in 0..(n - 1)} :
        op.group[1] # op.group[2]}

FlatOpsSet(n, gateSet) ==
    (IF "CX" \in gateSet THEN CXOpsSet(n) ELSE {})
    \cup {[name |-> nm, group |-> <<q>>] :
            nm \in (gateSet \ {"CX"}), q \in 0..(n - 1)}

\* Where a list of operations may be cut into instructions: it must be cut
\* where the name changes, and may be cut anywhere else.
ValidCuts(ops) ==
    {c \in SUBSET (1..(Len(ops) - 1)) :
        \A k \in 1..(Len(ops) - 1) : ops[k].name # ops[k + 1].name => k \in c}

RECURSIVE Regroup(_, _, _)
Regroup(ops, cuts, k) ==
    IF k = 0 THEN <<>>
    ELSE IF k = 1 \/ (k - 1) \in cuts
    THEN Append(Regroup(ops, cuts, k - 1),
                Instruction(ops[k].name, <<ops[k].group>>))
    ELSE LET prev == Regroup(ops, cuts, k - 1)
         IN [prev EXCEPT ![Len(prev)].groups = Append(@, ops[k].group)]

\* Every gate stream over n qubits with at most MaxGates operand groups.
Streams(n, gateSet) ==
    UNION {{Regroup(ops, c, Len(ops)) : c \in ValidCuts(ops)} :
            ops \in SeqsUpTo(FlatOpsSet(n, gateSet), MaxGates)}

\* The graphix PauliString a stim Pauli string stands for over `outs`.
DecodePauli(P, outs) ==
    PauliString({outs[a] : a \in {b \in DOMAIN outs : P.paulis[b] = "X"}},
                {outs[a] : a \in {b \in DOMAIN outs : P.paulis[b] = "Y"}},
                {outs[a] : a \in {b \in DOMAIN outs : P.paulis[b] = "Z"}},
                P.negative)

PositionOf(node, nodes) == CHOOSE a \in DOMAIN nodes : nodes[a] = node

\* The CliffordMap of a tableau, for an order of inputs and of outputs.
MapOf(tab, ins, outs) ==
    [input_nodes |-> ins,
     output_nodes |-> outs,
     x_map |-> [node \in Range(ins) |-> DecodePauli(tab.xs[PositionOf(node, ins)], outs)],
     z_map |-> [node \in Range(ins) |-> DecodePauli(tab.zs[PositionOf(node, ins)], outs)]]

\* Maps the pass must refuse, made from a unitary one.
MapVariants == {"unitary", "fewer_outputs", "fewer_inputs", "stray_node", "not_clifford"}

VariantOf(cm, variant) ==
    CASE variant = "unitary" -> cm
      [] variant = "fewer_outputs" ->
            [cm EXCEPT !.output_nodes = SubSeq(@, 1, Len(@) - 1)]
      [] variant = "fewer_inputs" ->
            [cm EXCEPT !.input_nodes = SubSeq(@, 1, Len(@) - 1)]
      [] variant = "stray_node" ->
            [cm EXCEPT !.z_map[cm.input_nodes[Len(cm.input_nodes)]].z_nodes =
                            @ \cup {StrayNode}]
      [] variant = "not_clifford" ->
            [cm EXCEPT !.z_map[cm.input_nodes[1]] = cm.x_map[cm.input_nodes[1]]]

EmptyMap == [input_nodes |-> <<>>, output_nodes |-> <<>>,
             x_map |-> <<>>, z_map |-> <<>>]

\* The ways the pass is called: the entry point, and add_to_circuit's
\* circuit (with its gates before the call) and copy arguments.
PriorGateLists == SeqsUpTo({h(0)}, MaxPrior)

\* Calls that bring no circuit of their own.
FreshShapes ==
    {[entry |-> e, circuit |-> "None", copy |-> FALSE, prior |-> <<>>] :
        e \in {"add_to_circuit", "to_stim_circuit", "clifford_map_to_stim_tableau"}}

CallShapes ==
    FreshShapes
    \cup {[entry |-> "add_to_circuit", circuit |-> "None", copy |-> TRUE, prior |-> <<>>]}
    \cup {[entry |-> "add_to_circuit", circuit |-> "C", copy |-> cp, prior |-> pr] :
            cp \in BOOLEAN, pr \in PriorGateLists}

EliminationGateSet == {"CX", "H", "S"}

(***************************************************************************)
(* Initial states.                                                         *)
(***************************************************************************)
\* A call of the pass on a Clifford map, with a synthesis engine that emits
\* the opcodes of gateSet.  engineChoice is the stream the engine answers
\* with: any stream of its gate set that implements the tableau it is given.
\* Every stream is tried on a fresh circuit; the refused maps and the calls
\* that bring a circuit are made from the single-instruction streams.
InitCall(gateSet) ==
    \E n \in 1..NumQubits :
    \E seed \in Streams(n, gateSet) :
    \E tab \in {TableauOfStream(seed, n)} :
    \E ins \in Perms(InLabels(n)), outs \in Perms(OutLabels(n)) :
    \E cm \in {VariantOf(MapOf(tab, ins, outs), variant) :
                variant \in IF Len(seed) <= 1 THEN MapVariants ELSE {"unitary"}} :
    \E shape \in IF Len(seed) <= 1 THEN CallShapes ELSE FreshShapes :
        /\ entry = shape.entry
        /\ clifford_map = cm
        /\ circuitArg = shape.circuit
        /\ copy = shape.copy
        /\ engineGateSet = gateSet
        /\ engineChoice = seed
        /\ heap = [o \in {"C", "N"} |-> IF o = "C" THEN shape.prior ELSE <<>>]
        /\ live = IF shape.circuit = "C" THEN {"C"} ELSE {}
        /\ priorGates = shape.prior
        /\ circuit = "unset"
        /\ xs = <<>>
        /\ zs = <<>>
        /\ tableau = NoTableau
        /\ stim_circuit = <<>>
        /\ i = 0
        /\ j = 0
        /\ pc = IF shape.entry = "add_to_circuit" THEN "initialize" ELSE "tableau"
        /\ err = "none"
        /\ ret = "none"
        /\ ps = EmptyPauliString
        /\ outputs = <<>>
        /\ encoded = NoPauli

Init == InitCall(EliminationGateSet)

\* The engine breaks its gate-set promise: it may also emit Z.
InitOpen == InitCall(EliminationGateSet \cup {"Z"})

\* A call of pauli_string_to_stim alone.
InitEnc ==
    /\ ps \in AllPauliStrings
    /\ outputs \in SeqsUpTo(Nodes, MaxOutLen)
    /\ entry = "pauli_string_to_stim"
    /\ pc = "encode"
    /\ clifford_map = EmptyMap
    /\ circuitArg = "None"
    /\ copy = FALSE
    /\ engineGateSet = {}
    /\ engineChoice = <<>>
    /\ heap = [o \in {"C", "N"} |-> <<>>]
    /\ live = {}
    /\ priorGates = <<>>
    /\ circuit = "unset"
    /\ xs = <<>>
    /\ zs = <<>>
    /\ tableau = NoTableau
    /\ stim_circuit = <<>>
    /\ i = 0
    /\ j = 0
    /\ err = "none"
    /\ ret = "none"
    /\ encoded = NoPauli

(***************************************************************************)
(* Actions.                                                                *)
(***************************************************************************)
\* pauli_string_to_stim(ps, outputs).
Encode ==
    /\ pc = "encode"
    /\ LET r == pauli_string_to_stim(ps, outputs)
       IN /\ err' = r.err
          /\ encoded' = r.val
          /\ pc' = IF r.err = "none" THEN "done" ELSE "failed"
          /\ ret' = IF r.err = "none" THEN "encoded" ELSE "none"
    /\ UNCHANGED <<entry, ps, outputs, clifford_map, circuitArg, copy,
                   engineGateSet, heap, live, priorGates, circuit, xs, zs,
                   tableau, stim_circuit, i, j, engineChoice>>

\* add_to_circuit, line 45.
Initialize ==
    /\ pc = "initialize"
    /\ heap' = Initialized.heap
    /\ live' = Initialized.live
    /\ circuit' = Initialized.obj
    /\ pc' = "tableau"
    /\ UNCHANGED <<entry, ps, outputs, clifford_map, circuitArg, copy,
                   engineGateSet, priorGates, xs, zs, tableau, stim_circuit,
                   i, j, err, ret, encoded, engineChoice>>

\* clifford_map_to_stim_tableau(clifford_map), called directly or through
\* to_stim_circuit (line 114, from line 47).
BuildTableau ==
    /\ pc = "tableau"
    /\ LET r == clifford_map_to_stim_tableau(clifford_map)
       IN /\ xs' = r.xs
          /\ zs' = r.zs
          /\ tableau' = r.val
          /\ err' = r.err
          /\ pc' = IF r.err # "none" THEN "failed"
                   ELSE IF entry = "clifford_map_to_stim_tableau" THEN "done"
                   ELSE "to_circuit"
          /\ ret' = IF r.err = "none" /\ entry = "clifford_map_to_stim_tableau"
                    THEN "tableau" ELSE "none"
    /\ UNCHANGED <<entry, ps, outputs, clifford_map, circuitArg, copy,
                   engineGateSet, heap, live, priorGates, circuit,
                   stim_circuit, i, j, encoded, engineChoice>>

\* tableau.to_circuit("elimination"), line 114: the engine answers with a
\* stream of its gate set whose tableau is the one it was given.
ToCircuit ==
    /\ pc = "to_circuit"
    /\ Range([k \in DOMAIN engineChoice |-> engineChoice[k].name]) \subseteq engineGateSet
    /\ TableauOfStream(engineChoice, Len(tableau.xs)) = tableau
    /\ stim_circuit' = engineChoice
    /\ IF entry = "to_stim_circuit"
       THEN pc' = "done" /\ ret' = "stim_circuit" /\ UNCHANGED <<i, j>>
       ELSE pc' = "replay" /\ ret' = "none" /\ i' = 1 /\ j' = 1
    /\ UNCHANGED <<entry, ps, outputs, clifford_map, circuitArg, copy,
                   engineGateSet, heap, live, priorGates, circuit, xs, zs,
                   tableau, err, encoded, engineChoice>>

\* add_to_circuit, lines 52-62: one step of the replay.  A step adds the
\* gate of the current target group; an instruction no case matches is
\* stepped over.
ReplayStep ==
    /\ pc = "replay"
    /\ i <= Len(stim_circuit)
    /\ LET instr == stim_circuit[i]
           raised == MatchRaises(instr.name)
           gates == MatchGates(instr)
       IN IF raised # "none"
          THEN /\ pc' = "failed"
               /\ err' = raised
               /\ UNCHANGED <<heap, i, j>>
          ELSE /\ heap' = IF j <= Len(gates)
                          THEN [heap EXCEPT ![circuit] = Append(@, gates[j])]
                          ELSE heap
               /\ IF j < Len(gates)
                  THEN i' = i /\ j' = j + 1
                  ELSE i' = i + 1 /\ j' = 1
               /\ UNCHANGED <<pc, err>>
    /\ UNCHANGED <<entry, ps, outputs, clifford_map, circuitArg, copy,
                   engineGateSet, live, priorGates, circuit, xs, zs, tableau,
                   stim_circuit, ret, encoded, engineChoice>>

\* add_to_circuit, line 63.
Return ==
    /\ pc = "replay"
    /\ i > Len(stim_circuit)
    /\ pc' = "done"
    /\ ret' = circuit
    /\ UNCHANGED <<entry, ps, outputs, clifford_map, circuitArg, copy,
                   engineGateSet, heap, live, priorGates, circuit, xs, zs,
                   tableau, stim_circuit, i, j, err, encoded, engineChoice>>

Next == Initialize \/ BuildTableau \/ ToCircuit \/ ReplayStep \/ Return

NextEnc == Encode

Spec == Init /\ [][Next]_vars

SpecOpen == InitOpen /\ [][Next]_vars

SpecEnc == InitEnc /\ [][NextEnc]_vars

(***************************************************************************)
(* Properties of pauli_string_to_stim (checked under SpecEnc).             *)
(***************************************************************************)
PairwiseDisjoint(p) ==
    /\ p.x_nodes \cap p.y_nodes = {}
    /\ p.x_nodes \cap p.z_nodes = {}
    /\ p.y_nodes \cap p.z_nodes = {}

NodesOf(p) == p.x_nodes \cup p.y_nodes \cup p.z_nodes

EncodeReturned == entry = "pauli_string_to_stim" /\ pc = "done"
EncodeEnded == entry = "pauli_string_to_stim" /\ pc \in {"done", "failed"}

\* C2: for a PauliString with pairwise-disjoint node sets whose nodes are
\* all in outputs, pauli_string_to_stim returns; the encoding returned has
\* 1 + len(outputs) symbols, the first is "-" iff negative_sign, and the
\* symbol after it at position a is X, Y, Z or _ as outputs[a] is in
\* x_nodes, y_nodes, z_nodes or in none of them.
C2_EncodingOfDisjointSets ==
    (EncodeEnded /\ PairwiseDisjoint(ps) /\ NodesOf(ps) \subseteq Range(outputs))
    => /\ pc = "done"
       /\ err = "none"
       /\ LET text == StimStr(encoded)
          IN /\ Len(text) = 1 + Len(outputs)
             /\ (text[1] = "-") = ps.negative_sign
             /\ text[1] \in {"+", "-"}
             /\ \A a \in 1..Len(outputs) :
                   /\ (text[a + 1] = "X") = (outputs[a] \in ps.x_nodes)
                   /\ (text[a + 1] = "Y") = (outputs[a] \in ps.y_nodes)
                   /\ (text[a + 1] = "Z") = (outputs[a] \in ps.z_nodes)
                   /\ (text[a + 1] = "_") = (outputs[a] \notin NodesOf(ps))

\* A negative string with an X, a Y and a Z node, encoded over outputs that
\* list them out of order.
C2_Witness ==
    /\ EncodeReturned
    /\ ps = PauliString({0}, {1}, {2}, TRUE)
    /\ outputs = <<2, 0, 1>>
    /\ StimStr(encoded) = <<"-", "Z", "X", "Y">>

\* C5: when some node of the PauliString is not in outputs,
\* pauli_string_to_stim raises ValueError and returns nothing, not even a
\* part of an encoding.
C5_OutOfRangeRejected ==
    (EncodeEnded /\ ~(NodesOf(ps) \subseteq Range(outputs)))
    => /\ pc = "failed"
       /\ err = "ValueError"
       /\ ret = "none"
       /\ encoded = NoPauli

\* The call failed on a string whose X nodes are in outputs and whose Z
\* node is not.
C5_Witness ==
    /\ entry = "pauli_string_to_stim"
    /\ pc = "failed"
    /\ ps.x_nodes = {0}
    /\ ps.z_nodes = {1}
    /\ outputs = <<0, 2>>

\* C10: a PauliString whose node sets overlap is not rejected: when its
\* nodes are all in outputs the call returns an encoding of 1 +
\* len(outputs) symbols, one per output position, and a node of several
\* sets is encoded X before Y before Z.
C10_OverlapPrecedence ==
    (EncodeEnded /\ ~PairwiseDisjoint(ps) /\ NodesOf(ps) \subseteq Range(outputs))
    => /\ pc = "done"
       /\ err = "none"
       /\ Len(StimStr(encoded)) = 1 + Len(outputs)
       /\ Len(encoded.paulis) = Len(outputs)
       /\ \A a \in 1..Len(outputs) :
             encoded.paulis[a] =
                IF outputs[a] \in ps.x_nodes THEN "X"
                ELSE IF outputs[a] \in ps.y_nodes THEN "Y"
                ELSE IF outputs[a] \in ps.z_nodes THEN "Z"
                ELSE "_"

\* Node 0 is in all three sets, node 1 in y_nodes and z_nodes.
C10_Witness ==
    /\ EncodeReturned
    /\ ps = PauliString({0}, {0, 1}, {0, 1, 2}, FALSE)
    /\ outputs = <<2, 1, 0>>
    /\ encoded.paulis = <<"Z", "Y", "X">>

(***************************************************************************)
(* Properties of StimCliffordPass (checked under Spec and SpecOpen).       *)
(***************************************************************************)
AddCall == entry = "add_to_circuit"

IsUnitaryMap == Len(clifford_map.input_nodes) = Len(clifford_map.output_nodes)

\* Every node of every Pauli string of the map is an output node.
AllEncodable ==
    \A node \in Range(clifford_map.input_nodes) :
        /\ NodesOf(clifford_map.x_map[node]) \subseteq Range(clifford_map.output_nodes)
        /\ NodesOf(clifford_map.z_map[node]) \subseteq Range(clifford_map.output_nodes)

\* The gates the call has added to the circuit it works on.
Replayed == SubSeq(heap[circuit], Len(priorGates) + 1, Len(heap[circuit]))

\* The gate an operation of the stream stands for.
ExpectedGate(op) ==
    CASE op.name = "CX" -> [name |-> "cnot", qubits |-> <<op.group[1], op.group[2]>>]
      [] op.name = "H" -> [name |-> "h", qubits |-> <<op.group[1]>>]
      [] op.name = "S" -> [name |-> "s", qubits |-> <<op.group[1]>>]

ExpectedGates(ops) == [k \in 1..Len(ops) |-> ExpectedGate(ops[k])]

IsKnownOp(op) == op.name \in {"CX", "H", "S"}

HasForeignOpcode(stream) == \E k \in DOMAIN stream : stream[k].name \notin {"CX", "H", "S"}

\* The number of operand groups of the first k instructions.
RECURSIVE GroupCount(_, _)
GroupCount(stream, k) ==
    IF k = 0 THEN 0 ELSE GroupCount(stream, k - 1) + Len(stream[k].groups)

\* C1: when add_to_circuit returns, conjugating X (resp. Z) on qubit k by
\* the gates it added gives the signed Pauli string that encodes
\* x_map[input_nodes[k]] (resp. z_map[input_nodes[k]]) over output_nodes.
C1_ReplayImplementsMap ==
    (AddCall /\ pc = "done")
    => LET n == Len(clifford_map.output_nodes)
           gates == Replayed
       IN /\ IsUnitaryMap
          /\ \A k \in 1..Len(clifford_map.input_nodes) :
                LET node == clifford_map.input_nodes[k]
                IN /\ ConjCircuit(gates, Len(gates), XGen(k - 1, n))
                        = pauli_string_to_stim(clifford_map.x_map[node],
                                               clifford_map.output_nodes).val
                   /\ ConjCircuit(gates, Len(gates), ZGen(k - 1, n))
                        = pauli_string_to_stim(clifford_map.z_map[node],
                                               clifford_map.output_nodes).val

\* A two-qubit map with inputs and outputs listed out of order, replayed
\* onto a fresh circuit as a CX between two one-qubit gates.
C1_Witness ==
    /\ AddCall /\ pc = "done" /\ circuitArg = "None"
    /\ clifford_map.input_nodes = <<2, 1>>
    /\ clifford_map.output_nodes = <<12, 11>>
    /\ heap[ret] = <<h(0), cnot(0, 1), s(1)>>

\* C3: the gates add_to_circuit adds are the operand groups of the stream
\* in order: at every point of the replay the gates added so far are the
\* gates of the groups before the current one, and on return they are the
\* gates of all groups, as many as the stream has groups.
C3_ReplayInStreamOrder ==
    (AddCall /\ pc \in {"replay", "done"})
    => LET expected == ExpectedGates(Flat(stim_circuit))
       IN /\ Len(Replayed) = GroupCount(stim_circuit, i - 1) + (j - 1)
          /\ Len(Replayed) <= Len(expected)
          /\ Replayed = SubSeq(expected, 1, Len(Replayed))
          /\ pc = "done" =>
                /\ Replayed = expected
                /\ Len(Replayed) = GroupCount(stim_circuit, Len(stim_circuit))

\* A stream of two instructions, the first a CX with two target pairs, has
\* been replayed.
C3_Witness ==
    /\ AddCall /\ pc = "done"
    /\ stim_circuit = <<Instruction("CX", <<<<0, 1>>, <<1, 0>>>>),
                        Instruction("H", <<<<1>>>>)>>
    /\ heap[ret] = <<cnot(0, 1), cnot(1, 0), h(1)>>

\* C4: for a map with len(input_nodes) # len(output_nodes), the three
\* entry points all end with NotImplementedError, and no tableau, stream or
\* circuit is returned.
C4_IsometryRejected ==
    ~IsUnitaryMap
    => /\ pc \in {"initialize", "tableau", "failed"}
       /\ pc = "failed" =>
            /\ err = "NotImplementedError"
            /\ ret = "none"
            /\ tableau = NoTableau
            /\ stim_circuit = <<>>

\* to_stim_circuit has failed on a map with fewer inputs than outputs.
C4_Witness ==
    /\ entry = "to_stim_circuit"
    /\ pc = "failed"
    /\ err = "NotImplementedError"
    /\ Len(clifford_map.input_nodes) = 1
    /\ Len(clifford_map.output_nodes) = 2

\* C6: with circuit=C and copy=False the call adds the gates to C and
\* returns C; with copy=True it never changes C and returns another circuit
\* that holds C's gates followed by the same gates.
C6_InPlaceOrCopy ==
    (AddCall /\ circuitArg = "C")
    => /\ copy => heap["C"] = priorGates
       /\ pc = "done" =>
            LET added == ExpectedGates(Flat(stim_circuit))
            IN IF copy
               THEN /\ ret # "C"
                    /\ ret \in live
                    /\ heap[ret] = priorGates \o added
               ELSE /\ ret = "C"
                    /\ heap["C"] = priorGates \o added

\* A copying call on a circuit that held a gate has returned.
C6_Witness ==
    /\ AddCall /\ pc = "done" /\ circuitArg = "C" /\ copy
    /\ priorGates = <<h(0)>>
    /\ heap["C"] = <<h(0)>>
    /\ heap[ret] = <<h(0), cnot(1, 0), cnot(0, 1)>>

\* C7: add_to_circuit ends in one of two ways: it returns after the replay
\* has passed the last instruction of the stream, or it fails with the
\* circuit it works on, and the caller's circuit, holding the gates they
\* held when the initializer returned.
C7_NoPartialSuccess ==
    AddCall
    => /\ pc = "done" => (err = "none" /\ i = Len(stim_circuit) + 1)
       /\ pc = "failed" =>
            /\ heap[circuit] = priorGates
            /\ heap["C"] = priorGates
            /\ ret = "none"

\* An in-place call on the caller's circuit has failed while encoding a
\* Pauli string.
C7_Witness ==
    /\ AddCall /\ pc = "failed" /\ err = "ValueError"
    /\ circuitArg = "C" /\ ~copy
    /\ priorGates = <<h(0)>>
    /\ ~AllEncodable

\* C8, as claimed: a call whose stream holds an instruction other than CX,
\* H, S fails with SynthesisGateSetError (so it never returns).
C8_ForeignOpcodeFails ==
    (AddCall /\ pc \in {"done", "failed"} /\ HasForeignOpcode(stim_circuit))
    => (pc = "failed" /\ err = "SynthesisGateSetError")

\* C8, amended: an instruction other than CX, H, S raises nothing and adds
\* no gate; the replay goes on, and on return the gates added are those of
\* the CX, H and S instructions alone, in order.
C8_ForeignOpcodeSkipped ==
    (AddCall /\ pc \in {"replay", "done"})
    => LET kept == ExpectedGates(SelectSeq(Flat(stim_circuit), IsKnownOp))
       IN /\ err = "none"
          /\ Len(Replayed) <= Len(kept)
          /\ Replayed = SubSeq(kept, 1, Len(Replayed))
          /\ pc = "done" => Replayed = kept

\* A stream with a Z between an H and an S has been replayed.
C8_Witness ==
    /\ AddCall /\ pc = "done"
    /\ stim_circuit = <<Instruction("H", <<<<0>>>>), Instruction("Z", <<<<0>>>>),
                        Instruction("S", <<<<0>>>>)>>
    /\ heap[ret] = <<h(0), s(0)>>

\* C9: for a map with as many inputs as outputs whose Pauli strings all
\* encode, the sequences handed to the tableau constructor have one entry
\* per input node, and entry k is the encoding of x_map[input_nodes[k]]
\* (resp. z_map[input_nodes[k]]) over output_nodes; when a string does not
\* encode the constructor is not reached.
C9_GeneratorsInInputOrder ==
    (IsUnitaryMap /\ pc \notin {"initialize", "tableau"})
    => IF AllEncodable
       THEN /\ Len(xs) = Len(clifford_map.input_nodes)
            /\ Len(zs) = Len(clifford_map.input_nodes)
            /\ \A k \in 1..Len(clifford_map.input_nodes) :
                  LET node == clifford_map.input_nodes[k]
                  IN /\ xs[k] = pauli_string_to_stim(clifford_map.x_map[node],
                                                      clifford_map.output_nodes).val
                     /\ zs[k] = pauli_string_to_stim(clifford_map.z_map[node],
                                                      clifford_map.output_nodes).val
       ELSE pc = "failed" /\ err = "ValueError" /\ xs = <<>> /\ zs = <<>>

\* clifford_map_to_stim_tableau has returned for inputs listed as 2, 1,
\* whose X images differ.
C9_Witness ==
    /\ entry = "clifford_map_to_stim_tableau"
    /\ pc = "done"
    /\ clifford_map.input_nodes = <<2, 1>>
    /\ Len(xs) = 2
    /\ xs[1] # xs[2]
    /\ tableau = [xs |-> xs, zs |-> zs]

====
